---- MODULE Spec2Model ----
(***************************************************************************)
(* Model of three standalone exercises of the repository:                  *)
(*   - constructs/examples/consecutive-ones.cpp  (getSegments, longestOnes)*)
(*   - bugs/pointer-1.cpp                        (canVisitAllRooms)        *)
(*   - language-basics/examples/DeleteMiddleNode.cpp (getCount,            *)
(*     deleteMiddle)                                                       *)
(* The exercises share no state; each has its own specification            *)
(* (SpecOnes, SpecRooms, SpecList) over its own variables, the variables   *)
(* of the other two staying at their idle values.                          *)
(* C++ indices are 0-based; At(s, i) reads the i-th element 0-based.       *)
(* All arithmetic of longestOnes stays far below 2^31 for the inputs       *)
(* considered (|k| and n are small), so int is modelled by Int.            *)
(***************************************************************************)
EXTENDS Integers, Sequences, FiniteSets, TLC

VARIABLES
    \* consecutive-ones.cpp
    nums,       \* the argument vector<int>& nums
    k,          \* the argument int k
    segs,       \* const auto& segs (line 28)
    result,     \* value returned by longestOnes
    lo_pc,      \* position in longestOnes: "idle", "entry", "scan", "returned"
    \* pointer-1.cpp
    rooms,      \* the argument vector<vector<int>>& rooms
    keys,       \* member unordered_map<int, vector<int>> keys
    visited,    \* member unordered_set<int> visited
    store,      \* storage of member queue<int> dq: every element ever pushed
    head,       \* 0-based slot of dq.front() in store; slots below are popped
    curr_rm,    \* what auto& curr_rm is bound to (line 24)
    rv_pc,      \* position in canVisitAllRooms
    rv_ret,     \* value returned by canVisitAllRooms
    pops,       \* number of dq.pop() calls executed (line 26)
    staleReads, \* number of reads of curr_rm made while its slot was popped
    \* DeleteMiddleNode.cpp
    list0,      \* the input list: addresses of its nodes, in list order
    next,       \* ListNode::next of every node (0 is nullptr)
    dm_head,    \* deleteMiddle's parameter head
    gc_head,    \* getCount's parameter head (a copy), aliased by auto& curr
    count,      \* getCount's local count
    nNodes,     \* deleteMiddle's local nNodes
    prev,       \* deleteMiddle's local prev
    curr,       \* deleteMiddle's local curr
    idx,        \* deleteMiddle's local idx
    dm_ret,     \* value returned by deleteMiddle
    dm_pc       \* position in deleteMiddle

onesVars  == <<nums, k, segs, result, lo_pc>>
roomsVars == <<rooms, keys, visited, store, head, curr_rm, rv_pc, rv_ret,
               pops, staleReads>>
listVars  == <<list0, next, dm_head, gc_head, count, nNodes, prev, curr,
               idx, dm_ret, dm_pc>>
vars == <<onesVars, roomsVars, listVars>>

----------------------------------------------------------------------------
(* Bounds *)

MaxLen == 6      \* longest enumerated sequence nums
MaxElem == 2     \* elements of nums are drawn from 0..MaxElem
MaxK == 8        \* largest budget k
MaxNeg == 2      \* most negative budget is -MaxNeg
MaxRooms == 2    \* largest number of rooms
MaxNodes == 4    \* largest number of list nodes (addresses 1..MaxNodes)

----------------------------------------------------------------------------
(* Helpers *)

At(s, i) == s[i + 1]

Min(a, b) == IF a < b THEN a ELSE b

Max(a, b) == IF a > b THEN a ELSE b

SeqsUpTo(S, n) == UNION {[1..m -> S] : m \in 0..n}

Reverse(s) == [i \in 1..Len(s) |-> s[Len(s) + 1 - i]]

----------------------------------------------------------------------------
(* consecutive-ones.cpp : getSegments *)

\* locals of getSegments before the loop (lines 7-9)
SegInit == [segs |-> <<>>, wait_start |-> TRUE, s_start |-> 0]

\* SegStep forgetting to wait for the next run after closing one (line 18)
SegStepNoReset(st, ns, i) ==
    LET st1 == IF st.wait_start /\ At(ns, i) = 1
               THEN [st EXCEPT !.s_start = i, !.wait_start = FALSE]
               ELSE st
    IN  IF ~st1.wait_start /\ At(ns, i) = 0
        THEN [st1 EXCEPT !.segs = Append(@, [first |-> st1.s_start, second |-> i])]
        ELSE st1

\* one iteration of the for loop (lines 11-19)
SegStep(st, ns, i) ==
    LET st1 == IF st.wait_start /\ At(ns, i) = 1
               THEN [st EXCEPT !.s_start = i, !.wait_start = FALSE]
               ELSE st
    IN  IF ~st1.wait_start /\ At(ns, i) = 0
        THEN [st1 EXCEPT !.segs = Append(@, [first |-> st1.s_start, second |-> i]),
                         !.wait_start = TRUE]
        ELSE st1

\* the for loop (line 10)
RECURSIVE SegScan(_, _, _)
SegScan(st, ns, i) ==
    IF i < Len(ns) THEN SegScan(SegStep(st, ns, i), ns, i + 1) ELSE st

\* SegClose without lines 21-23
SegCloseDropsLast(st, ns) == st.segs

\* closing of a run that reaches the end (lines 21-24)
SegClose(st, ns) ==
    IF ~st.wait_start
    THEN Append(st.segs, [first |-> st.s_start, second |-> Len(ns)])
    ELSE st.segs

getSegments(ns) == SegClose(SegScan(SegInit, ns, 0), ns)

----------------------------------------------------------------------------
(* consecutive-ones.cpp : longestOnes *)

\* gap between segment j-1 and segment j (lines 39, 40)
Gap(sg, j) == At(sg, j).first - At(sg, j - 1).second

\* InitMaxOnes clamped at 0
InitMaxOnesClamped(nNums, kk) == Max(0, Min(nNums, kk))

\* initial value of maxOnes (line 32)
InitMaxOnes(nNums, kk) == Min(nNums, kk)

\* the inner for loop (lines 38-46), from index j with budget kRemaining
RECURSIVE InnerLoop(_, _, _)
InnerLoop(sg, j, kRemaining) ==
    IF j < Len(sg)
    THEN IF Gap(sg, j) <= kRemaining
         THEN InnerLoop(sg, j + 1, kRemaining - Gap(sg, j))
         ELSE [breakInMiddle |-> TRUE, kRemaining |-> kRemaining, j |-> j]
    ELSE [breakInMiddle |-> FALSE, kRemaining |-> kRemaining, j |-> j]

\* BreakCandidate without the remaining budget
BreakCandidateNoBudget(sg, i, j, kRemaining) ==
    At(sg, j - 1).second - At(sg, i).first

\* candidate recorded at the break (line 43)
BreakCandidate(sg, i, j, kRemaining) ==
    At(sg, j - 1).second - At(sg, i).first + kRemaining

\* Border without the zeros before the first segment (line 49)
BorderNoLeading(sg, nNums, i) ==
    (nNums - At(sg, Len(sg) - 1).second)
    + (IF i = 0 THEN 0
       ELSE At(sg, i).first - At(sg, i - 1).second)

\* boundary slack (lines 48-50)
Border(sg, nNums, i) ==
    (nNums - At(sg, Len(sg) - 1).second)
    + (IF i = 0 THEN At(sg, 0).first
       ELSE At(sg, i).first - At(sg, i - 1).second)

\* TailCandidate spending the whole remaining budget, uncapped by the border
TailCandidateUncapped(sg, nNums, i, kRemaining) ==
    At(sg, Len(sg) - 1).second - At(sg, i).first + kRemaining

\* candidate recorded when the inner loop ran to the last segment (line 51)
TailCandidate(sg, nNums, i, kRemaining) ==
    At(sg, Len(sg) - 1).second - At(sg, i).first
    + Min(Border(sg, nNums, i), kRemaining)

\* OuterBody without lines 47-52: nothing is recorded unless the inner loop
\* breaks
OuterBodyNoTail(sg, nNums, kk, i, maxOnes) ==
    LET r == InnerLoop(sg, i + 1, kk)
    IN  IF r.breakInMiddle
        THEN Max(maxOnes, BreakCandidate(sg, i, r.j, r.kRemaining))
        ELSE maxOnes

\* OuterBody taking the border slack for the first segment only
OuterBodyFirstOnly(sg, nNums, kk, i, maxOnes) ==
    LET r == InnerLoop(sg, i + 1, kk)
    IN  IF r.breakInMiddle
        THEN Max(maxOnes, BreakCandidate(sg, i, r.j, r.kRemaining))
        ELSE IF i = 0
        THEN Max(maxOnes, TailCandidate(sg, nNums, i, r.kRemaining))
        ELSE Max(maxOnes, At(sg, Len(sg) - 1).second - At(sg, i).first)

\* body of the outer for loop (lines 36-52)
OuterBody(sg, nNums, kk, i, maxOnes) ==
    LET r == InnerLoop(sg, i + 1, kk)
    IN  IF r.breakInMiddle
        THEN Max(maxOnes, BreakCandidate(sg, i, r.j, r.kRemaining))
        ELSE Max(maxOnes, TailCandidate(sg, nNums, i, r.kRemaining))

\* the outer for loop (line 35)
RECURSIVE OuterLoop(_, _, _, _, _)
OuterLoop(sg, nNums, kk, i, maxOnes) ==
    IF i < Len(sg)
    THEN OuterLoop(sg, nNums, kk, i + 1, OuterBody(sg, nNums, kk, i, maxOnes))
    ELSE maxOnes

\* lines 30-54, given the segments
Optimize(sg, nNums, kk) == OuterLoop(sg, nNums, kk, 0, InitMaxOnes(nNums, kk))

longestOnes(ns, kk) == Optimize(getSegments(ns), Len(ns), kk)

Example1 == <<1, 1, 1, 0, 0, 0, 1, 1, 1, 1, 0>>

Example2 == <<1, 0, 1, 0, 1>>

OnesInputs == SeqsUpTo(0..MaxElem, MaxLen) \cup {Example1, Example2}

\* line 28
LO_GetSegments ==
    /\ lo_pc = "entry"
    /\ segs' = getSegments(nums)
    /\ lo_pc' = "scan"
    /\ UNCHANGED <<nums, k, result>>
    /\ UNCHANGED <<roomsVars, listVars>>

\* lines 30-54
LO_Optimize ==
    /\ lo_pc = "scan"
    /\ result' = Optimize(segs, Len(nums), k)
    /\ lo_pc' = "returned"
    /\ UNCHANGED <<nums, k, segs>>
    /\ UNCHANGED <<roomsVars, listVars>>

----------------------------------------------------------------------------
(* pointer-1.cpp : canVisitAllRooms *)

nRooms == Len(rooms)

\* slot of store still held by dq (pushed and not yet popped)
Live(slot) == head <= slot /\ slot < Len(store)

\* auto curr_rm = dq.front(): a copy of the front element
BindFrontByValue == [ref |-> FALSE, slot |-> head, val |-> At(store, head)]

\* auto& curr_rm = dq.front(): a reference to the front slot (line 24)
BindFront == [ref |-> TRUE, slot |-> head, val |-> 0]

\* the reference curr_rm refers to an element dq.pop() has removed
Dangling == curr_rm.ref /\ ~Live(curr_rm.slot)

\* What a read of a removed element can yield (undefined behaviour): the
\* memory may still hold the old value or anything else, here any room
\* number or one number that is no room (nRooms); or the read aborts, as
\* under AddressSanitizer (line 4).
Crash == -1

StaleOutcomes == (0..nRooms) \cup {Crash}

\* outcomes of reading curr_rm
ReadCurr ==
    IF ~curr_rm.ref THEN {curr_rm.val}
    ELSE IF Live(curr_rm.slot) THEN {At(store, curr_rm.slot)}
    ELSE StaleOutcomes

\* keys[v] (operator[] default-constructs an absent entry)
KeysAt(v) == IF v \in DOMAIN keys THEN keys[v] ELSE <<>>

KeysTouched(v) ==
    IF v \in DOMAIN keys THEN keys ELSE [x \in DOMAIN keys \cup {v} |-> KeysAt(x)]

\* the keys the for loop pushes (lines 27-29)
RECURSIVE Unvisited(_)
Unvisited(ks) ==
    IF ks = <<>> THEN <<>>
    ELSE IF Head(ks) \notin visited THEN <<Head(ks)>> \o Unvisited(Tail(ks))
    ELSE Unvisited(Tail(ks))

\* sorted key lists over rooms 0..n-1
RECURSIVE SortedSeq(_)
SortedSeq(S) ==
    IF S = {} THEN <<>>
    ELSE LET m == CHOOSE x \in S : \A y \in S : x <= y
         IN  <<m>> \o SortedSeq(S \ {m})

KeyLists(n) == {SortedSeq(S) : S \in SUBSET (0..(n - 1))}

RoomsInputs == UNION {[1..n -> KeyLists(n)] : n \in 0..MaxRooms}

NoRef == [ref |-> FALSE, slot |-> 0, val |-> 0]

\* lines 18-22
RV_Setup ==
    /\ rv_pc = "entry"
    /\ keys' = [i \in 0..(nRooms - 1) |-> At(rooms, i)]
    /\ store' = Append(store, 0)
    /\ rv_pc' = "while"
    /\ UNCHANGED <<rooms, visited, head, curr_rm, rv_ret, pops, staleReads>>
    /\ UNCHANGED <<onesVars, listVars>>

\* line 24 (loop test of line 23 true)
RV_Front ==
    /\ rv_pc = "while"
    /\ Len(store) - head > 0
    /\ curr_rm' = BindFront
    /\ rv_pc' = "insert"
    /\ UNCHANGED <<rooms, keys, visited, store, head, rv_ret, pops, staleReads>>
    /\ UNCHANGED <<onesVars, listVars>>

\* line 25
RV_Insert ==
    /\ rv_pc = "insert"
    /\ \E v \in ReadCurr :
          IF v = Crash
          THEN rv_pc' = "crashed" /\ visited' = visited
          ELSE rv_pc' = "pop" /\ visited' = visited \cup {v}
    /\ staleReads' = IF Dangling THEN staleReads + 1 ELSE staleReads
    /\ UNCHANGED <<rooms, keys, store, head, curr_rm, rv_ret, pops>>
    /\ UNCHANGED <<onesVars, listVars>>

\* line 26
RV_Pop ==
    /\ rv_pc = "pop"
    /\ head' = head + 1
    /\ pops' = pops + 1
    /\ rv_pc' = "for"
    /\ UNCHANGED <<rooms, keys, visited, store, curr_rm, rv_ret, staleReads>>
    /\ UNCHANGED <<onesVars, listVars>>

\* lines 27-29
RV_ForKeys ==
    /\ rv_pc = "for"
    /\ \E v \in ReadCurr :
          IF v = Crash
          THEN rv_pc' = "crashed" /\ UNCHANGED <<keys, store>>
          ELSE /\ rv_pc' = "while"
               /\ keys' = KeysTouched(v)
               /\ store' = store \o Unvisited(KeysAt(v))
    /\ staleReads' = IF Dangling THEN staleReads + 1 ELSE staleReads
    /\ UNCHANGED <<rooms, visited, head, curr_rm, rv_ret, pops>>
    /\ UNCHANGED <<onesVars, listVars>>

\* line 31 (loop test of line 23 false)
RV_Return ==
    /\ rv_pc = "while"
    /\ Len(store) - head = 0
    /\ rv_ret' = (Cardinality(visited) = nRooms)
    /\ rv_pc' = "returned"
    /\ UNCHANGED <<rooms, keys, visited, store, head, curr_rm, pops, staleReads>>
    /\ UNCHANGED <<onesVars, listVars>>

----------------------------------------------------------------------------
(* DeleteMiddleNode.cpp : getCount, deleteMiddle *)

Nodes == 1..MaxNodes

\* nullptr
Null == 0

\* the nodes reached from h by following next, in order
RECURSIVE ListFrom(_, _, _)
ListFrom(nx, h, fuel) ==
    IF h = Null \/ fuel = 0 THEN <<>>
    ELSE <<h>> \o ListFrom(nx, nx[h], fuel - 1)

\* input lists: distinct node addresses in any order
ListInputs == {l \in SeqsUpTo(Nodes, MaxNodes) :
                 \A a, b \in 1..Len(l) : a # b => l[a] # l[b]}

\* the next fields of a well-formed list laid out as l
NextOf(l) ==
    [a \in Nodes |->
       IF \E p \in 1..(Len(l) - 1) : l[p] = a
       THEN l[(CHOOSE p \in 1..(Len(l) - 1) : l[p] = a) + 1]
       ELSE Null]

\* MiddleIdx rounding the other way for even n
MiddleIdxLow(n) == (n - 1) \div 2

\* the index compared with idx (line 31)
MiddleIdx(n) == n \div 2

\* line 23 calls getCount: head is passed by value (line 12); lines 13-14
DM_CallGetCount ==
    /\ dm_pc = "entry"
    /\ gc_head' = dm_head
    /\ count' = 0
    /\ dm_pc' = "count"
    /\ UNCHANGED <<list0, next, dm_head, nNodes, prev, curr, idx, dm_ret>>
    /\ UNCHANGED <<onesVars, roomsVars>>

\* one iteration of getCount's loop (lines 15-18); curr aliases gc_head
GC_Step ==
    /\ dm_pc = "count"
    /\ gc_head # Null
    /\ count' = count + 1
    /\ gc_head' = next[gc_head]
    /\ UNCHANGED <<list0, next, dm_head, nNodes, prev, curr, idx, dm_ret, dm_pc>>
    /\ UNCHANGED <<onesVars, roomsVars>>

\* line 19, and the assignment of line 23
GC_Return ==
    /\ dm_pc = "count"
    /\ gc_head = Null
    /\ nNodes' = count
    /\ dm_pc' = "check"
    /\ UNCHANGED <<list0, next, dm_head, gc_head, count, prev, curr, idx, dm_ret>>
    /\ UNCHANGED <<onesVars, roomsVars>>

\* lines 25-29
DM_Check ==
    /\ dm_pc = "check"
    /\ IF nNodes < 2
       THEN /\ dm_ret' = Null
            /\ dm_pc' = "ret25"
            /\ UNCHANGED <<prev, curr, idx>>
       ELSE /\ prev' = dm_head
            /\ curr' = next[dm_head]
            /\ idx' = 1
            /\ dm_pc' = "loop"
            /\ UNCHANGED dm_ret
    /\ UNCHANGED <<list0, next, dm_head, gc_head, count, nNodes>>
    /\ UNCHANGED <<onesVars, roomsVars>>

\* one test of the while loop and what follows it (lines 30-39)
DM_Loop ==
    /\ dm_pc = "loop"
    /\ IF curr = Null
       THEN /\ dm_ret' = Null
            /\ dm_pc' = "ret39"
            /\ UNCHANGED <<next, prev, curr, idx>>
       ELSE IF idx = MiddleIdx(nNodes)
       THEN /\ next' = [next EXCEPT ![prev] = next[curr]]
            /\ dm_ret' = dm_head
            /\ dm_pc' = "ret33"
            /\ UNCHANGED <<prev, curr, idx>>
       ELSE /\ prev' = curr
            /\ curr' = next[curr]
            /\ idx' = idx + 1
            /\ UNCHANGED <<next, dm_ret, dm_pc>>
    /\ UNCHANGED <<list0, dm_head, gc_head, count, nNodes>>
    /\ UNCHANGED <<onesVars, roomsVars>>

----------------------------------------------------------------------------
(* Specifications *)

OnesNext == LO_GetSegments \/ LO_Optimize

\* a call longestOnes(nums, k) is about to start; the other exercises idle
OnesInit ==
    /\ nums \in OnesInputs
    /\ k \in (0 - MaxNeg)..MaxK
    /\ segs = <<>>
    /\ result = 0
    /\ lo_pc = "entry"
    /\ rooms = <<>> /\ keys = <<>> /\ visited = {} /\ store = <<>> /\ head = 0
    /\ curr_rm = NoRef /\ rv_pc = "idle" /\ rv_ret = FALSE
    /\ pops = 0 /\ staleReads = 0
    /\ list0 = <<>> /\ next = [a \in Nodes |-> Null] /\ dm_head = Null
    /\ gc_head = Null /\ count = 0 /\ nNodes = 0 /\ prev = Null /\ curr = Null
    /\ idx = 0 /\ dm_ret = Null /\ dm_pc = "idle"

SpecOnes == OnesInit /\ [][OnesNext]_vars

RoomsNext ==
    \/ RV_Setup
    \/ RV_Front
    \/ RV_Insert
    \/ RV_Pop
    \/ RV_ForKeys
    \/ RV_Return

\* a freshly constructed Solution on which canVisitAllRooms(rooms) is called;
\* the other exercises idle
RoomsInit ==
    /\ rooms \in RoomsInputs
    /\ keys = <<>> /\ visited = {} /\ store = <<>> /\ head = 0
    /\ curr_rm = NoRef /\ rv_pc = "entry" /\ rv_ret = FALSE
    /\ pops = 0 /\ staleReads = 0
    /\ nums = <<>> /\ k = 0 /\ segs = <<>> /\ result = 0 /\ lo_pc = "idle"
    /\ list0 = <<>> /\ next = [a \in Nodes |-> Null] /\ dm_head = Null
    /\ gc_head = Null /\ count = 0 /\ nNodes = 0 /\ prev = Null /\ curr = Null
    /\ idx = 0 /\ dm_ret = Null /\ dm_pc = "idle"

SpecRooms == RoomsInit /\ [][RoomsNext]_vars

ListNext ==
    \/ DM_CallGetCount
    \/ GC_Step
    \/ GC_Return
    \/ DM_Check
    \/ DM_Loop

\* a call deleteMiddle(head) on a well-formed list is about to start; the
\* other exercises idle
ListInit ==
    /\ list0 \in ListInputs
    /\ next = NextOf(list0)
    /\ dm_head = IF list0 = <<>> THEN Null ELSE list0[1]
    /\ gc_head = Null /\ count = 0 /\ nNodes = 0 /\ prev = Null /\ curr = Null
    /\ idx = 0 /\ dm_ret = Null /\ dm_pc = "entry"
    /\ nums = <<>> /\ k = 0 /\ segs = <<>> /\ result = 0 /\ lo_pc = "idle"
    /\ rooms = <<>> /\ keys = <<>> /\ visited = {} /\ store = <<>> /\ head = 0
    /\ curr_rm = NoRef /\ rv_pc = "idle" /\ rv_ret = FALSE
    /\ pops = 0 /\ staleReads = 0

SpecList == ListInit /\ [][ListNext]_vars

----------------------------------------------------------------------------
(* Properties of longestOnes and getSegments, checked under SpecOnes *)

Binary(ns) == \A p \in 1..Len(ns) : ns[p] \in {0, 1}

\* number of 0-valued elements in the window [s, e)
ZerosIn(ns, s, e) == Cardinality({i \in s..(e - 1) : At(ns, i) = 0})

SetMax(S) == CHOOSE x \in S : \A y \in S : y <= x

\* maximum length of a window [s, e) holding at most kk zeros
BestWindow(ns, kk) ==
    SetMax({e - s : <<s, e>> \in
              {w \in (0..Len(ns)) \X (0..Len(ns)) :
                 w[1] <= w[2] /\ ZerosIn(ns, w[1], w[2]) <= kk}})

\* length of the longest block of consecutive 1s (0 if there is none)
LongestRun(ns) ==
    SetMax({0} \cup {e - s + 1 : <<s, e>> \in
              {w \in (1..Len(ns)) \X (1..Len(ns)) :
                 w[1] <= w[2] /\ \A p \in w[1]..w[2] : ns[p] = 1}})

\* length of the longest segment of sg (0 if sg is empty)
LongestSeg(sg) == SetMax({0} \cup {sg[p].second - sg[p].first : p \in 1..Len(sg)})

ValidCall == Binary(nums) /\ k >= 0

Returned == lo_pc = "returned"

\* C1: for a sequence over {0,1} and k >= 0, longestOnes returns exactly the
\* maximum length of a window [s, e) with at most k zeros; it returns 6 for
\* [1,1,1,0,0,0,1,1,1,1,0] with k = 2 and 3 for [1,0,1,0,1] with k = 1.
C1_MaxWindow ==
    (Returned /\ ValidCall) =>
        /\ result = BestWindow(nums, k)
        /\ (nums = Example1 /\ k = 2) => result = 6
        /\ (nums = Example2 /\ k = 1) => result = 3

C1_Witness == Returned /\ nums = Example1 /\ k = 2 /\ result = 6

\* C2 as stated: whenever k < 0 or an element is outside {0,1}, the call
\* fails with InvalidArgument before any scanning and produces no result: it
\* never gets past its entry other than by failing.
C2_FailsBeforeScanning ==
    (lo_pc # "idle" /\ ~ValidCall) => lo_pc \in {"entry", "InvalidArgument"}

\* C2 as amended: longestOnes validates nothing and never fails; with k < 0
\* or a non-binary element it still scans and returns an integer, which is
\* k plus the length of the longest segment getSegments found when k < 0,
\* and lies between min(n, k) and n when k >= 0.
C2_NoValidation ==
    /\ lo_pc \in {"entry", "scan", "returned"}
    /\ (Returned /\ ~ValidCall) =>
          IF k < 0
          THEN result = k + LongestSeg(segs)
          ELSE Min(Len(nums), k) <= result /\ result <= Len(nums)

C2_Witness ==
    /\ Returned /\ nums = <<1, 2, 1, 0>> /\ k = 0 - 1
    /\ segs = <<[first |-> 0, second |-> 3]>> /\ result = 2

\* C3: for a sequence over {0,1} of length n and k >= 0, the returned value L
\* satisfies 0 <= L <= n.
C3_ResultInRange ==
    (Returned /\ ValidCall) => (0 <= result /\ result <= Len(nums))

\* k > n, and the first segment has zeros on both sides
C3_Witness ==
    Returned /\ nums = <<0, 1, 0>> /\ k = 4 /\ result = 3

\* C4: saturation: if k is at least the number of zeros of a sequence over
\* {0,1}, longestOnes returns n.
C4_Saturation ==
    (Returned /\ ValidCall /\ k >= ZerosIn(nums, 0, Len(nums))) =>
        result = Len(nums)

C4_Witness ==
    Returned /\ nums = <<0, 1, 0, 1, 0>> /\ k = 3 /\ result = 5

\* C5: zero budget: longestOnes(nums, 0) is the length of the longest run of
\* 1s, and 0 when the sequence is empty or all zeros.
C5_ZeroBudget ==
    (Returned /\ Binary(nums) /\ k = 0) =>
        /\ result = LongestRun(nums)
        /\ (\A p \in 1..Len(nums) : nums[p] = 0) => result = 0

C5_Witness ==
    Returned /\ nums = <<1, 0, 1, 1>> /\ k = 0 /\ result = 2

\* C6: reversal symmetry: longestOnes returns the same value on a sequence
\* over {0,1} and on its reverse, for the same k >= 0.
C6_ReversalSymmetry ==
    (Returned /\ ValidCall) => result = longestOnes(Reverse(nums), k)

\* not a palindrome; the first segment has leading zeros, the last none
C6_Witness ==
    Returned /\ nums = <<0, 0, 1, 0, 1>> /\ k = 1 /\ result = 3

\* C7: monotonicity in budget: longestOnes(nums, k) <= longestOnes(nums, k+1)
\* for a sequence over {0,1} and k >= 0.
C7_Monotone ==
    (Returned /\ ValidCall) => result <= longestOnes(nums, k + 1)

C7_Witness ==
    /\ Returned /\ nums = <<1, 0, 0, 1, 1>> /\ k = 1 /\ result = 3
    /\ longestOnes(nums, 2) = 5

\* C8: for a sequence over {0,1} of length n, getSegments returns the maximal
\* runs of 1s as intervals [first, second) with first < second <= n, in
\* ascending order with at least one 0 between consecutive segments; every
\* index inside a segment holds 1 and every index outside all segments
\* holds 0 (so a run reaching the end is closed with second = n, and a
\* sequence without 1s yields no segment).
C8_SegmentsAreMaximalRuns ==
    (lo_pc \in {"scan", "returned"} /\ Binary(nums)) =>
        /\ \A p \in 1..Len(segs) :
              /\ 0 <= segs[p].first
              /\ segs[p].first < segs[p].second
              /\ segs[p].second <= Len(nums)
        /\ \A p \in 2..Len(segs) : segs[p - 1].second < segs[p].first
        /\ \A i \in 0..(Len(nums) - 1) :
              (At(nums, i) = 1) <=>
                  \E p \in 1..Len(segs) : segs[p].first <= i /\ i < segs[p].second
        /\ (\A i \in 0..(Len(nums) - 1) : At(nums, i) = 0) => segs = <<>>

C8_Witness ==
    /\ lo_pc = "scan" /\ nums = <<0, 1, 1, 0, 1>>
    /\ segs = <<[first |-> 1, second |-> 3], [first |-> 4, second |-> 5]>>

----------------------------------------------------------------------------
(* Property of canVisitAllRooms, checked under SpecRooms *)

\* C9: in every iteration of the queue-draining loop the reference curr_rm
\* is read (line 27) after dq.pop() removed the element it refers to: the
\* read at line 27 is always through a dangling reference, there is one such
\* read per pop, and no execution ends without one.
C9_StaleAliasRead ==
    /\ rv_pc = "for" => (Dangling /\ staleReads = pops - 1)
    /\ rv_pc \notin {"for", "idle"} => staleReads = pops
    /\ rv_pc \in {"returned", "crashed"} => staleReads >= 1

\* the first iteration, about to read curr_rm at line 27
C9_Witness == rv_pc = "for" /\ pops = 1 /\ Dangling /\ staleReads = 0

----------------------------------------------------------------------------
(* Property of deleteMiddle, checked under SpecList *)

\* s without its element at 0-based index i
RemoveAt(s, i) == SubSeq(s, 1, i) \o SubSeq(s, i + 2, Len(s))

\* C10: deleteMiddle returns nullptr for a list of n <= 1 nodes; for n >= 2
\* it returns the original head of a list of n-1 nodes, the original list
\* without its node at 0-based index n div 2, the others in their original
\* order; the return nullptr after the loop (line 39) is never reached.
C10_DeleteMiddle ==
    /\ dm_pc # "ret39"
    /\ dm_pc = "ret25" => (Len(list0) <= 1 /\ dm_ret = Null)
    /\ dm_pc = "ret33" =>
          /\ Len(list0) >= 2
          /\ dm_ret = list0[1]
          /\ ListFrom(next, dm_ret, MaxNodes + 1)
               = RemoveAt(list0, Len(list0) \div 2)

C10_Witness ==
    /\ dm_pc = "ret33" /\ list0 = <<3, 1, 2>>
    /\ ListFrom(next, dm_ret, MaxNodes + 1) = <<3, 2>>

====
